---- MODULE Spec2Model ----
(***************************************************************************)
(* split_log.ts: splits a network log into one file per selected fight or  *)
(* zone.  The script parses its arguments, checks them, scans the log once *)
(* (the prepass) into an EncounterCollector, selects records, and replays  *)
(* the log through a Splitter (and an Anonymizer) into an output file.     *)
(*                                                                         *)
(* JavaScript values are tagged tuples, so that undefined, null, numbers   *)
(* and strings stay distinct values that can be compared with each other.  *)
(***************************************************************************)
EXTENDS Integers, Sequences, FiniteSets, TLC

Undef == <<"undefined">>
Null == <<"null">>
Num(n) == <<"num", n>>
Str(s) == <<"str", s>>
Bool(b) == <<"bool", b>>

(* ---------------------------- bounds ----------------------------------- *)
\* longest input log, in lines
MaxLen == 3
\* largest index given to -lf / -lz
MaxIndex == 2

(* ------------------------- input alphabets ----------------------------- *)
\* raw log lines: a zone change, three kinds of fight start, a fight end and
\* a chat line
Lines == {"Z1", "F1", "F2", "F3", "E", "C"}
IndexValues == (0 - 2) .. MaxIndex
RegexValues == {"a", "b"}

Selectors == {"search_fights", "search_zones", "fight_regex", "zone_regex"}
Options == Selectors \cup {"file", "force", "no_anonymize", "analysis_filter"}

\* what the parser stores for an option given on the command line.  The runs
\* explored leave --force out: args.force is read at line 102 only, and a
\* stored true gives the same flags there as the undefined of an accepted run
SuppliedValues(opt) ==
  CASE opt = "file" -> {Str("log")}
    [] opt = "force" -> {}
    [] opt \in {"search_fights", "search_zones"} -> {Num(i) : i \in IndexValues}
    [] opt \in {"fight_regex", "zone_regex"} -> {Str(r) : r \in RegexValues}
    [] opt \in {"no_anonymize", "analysis_filter"} -> {Bool(FALSE)}

\* what the namespace holds for an option that was not given: the two flags
\* declared in this file carry defaultValue true; every other option holds
\* the parser's "absent" value, which the field types declare as null and the
\* selector count tests as undefined
UnsuppliedValue(opt, absent) ==
  IF opt \in {"no_anonymize", "analysis_filter"} THEN Bool(TRUE) ELSE absent

\* the values parseArgs can leave in the namespace for one option
OptionValues(opt, absent) == SuppliedValues(opt) \cup {UnsuppliedValue(opt, absent)}

(* ------------------------------ state ---------------------------------- *)
VARIABLES
  args,       \* the parsed SplitLogArgs namespace
  given,      \* the options that were given on the command line
  pc,         \* position of the script: start, checksel, prepass, select, await, exited
  status,     \* exit status of the process, NotExited while it runs
  exitBy,     \* the statement that ended the process
  exitCode,   \* the exitCode variable set by errorFunc
  errs,       \* kinds of message passed to errorFunc / console.error
  log,        \* the lines of the input log read so far
  collector,  \* the EncounterCollector filled by the prepass
  loopIdx,    \* position of the regex loop in collector.fights / collector.zones
  req,        \* arguments of the last writeFile call (empty before the first)
  promise,    \* the Promise returned by writeFile: none, pending, resolved, rejected
  rpos,       \* number of 'line' events the pass's lineReader has delivered
  rclosed,    \* the lineReader's 'close' event has been emitted
  splitter,   \* the pass's Splitter
  lines,      \* the pass's lines array
  widx,       \* for each entry of lines, the position in the log it came from
  wstate,     \* the pass's writer: none, opening, open, failed
  wflags,     \* the flags the writer was created with
  wended,     \* writer.end() has been called
  wbuf,       \* chunks handed to writer.write, in order
  existed,    \* the destination existed when the writer was created
  wrote,      \* output files whose pass logged "Wrote:", in order
  opens,      \* number of read streams created on the input log
  fileLen,    \* number of lines of the input log, known once it is open
  fed,        \* the calls collector.process(line, isRestart) made so far
  started,    \* number of write passes started (Promises created)
  anonSeen,   \* positions of the log given to the pass's anonymizer.process
  idsChecks,  \* number of anonymizer.validateIds calls of the pass
  validated   \* the lines given to anonymizer.validateLine by the pass, in order

procVars == <<pc, status, exitBy>>
errVars == <<exitCode, errs>>
passVars == <<promise, rpos, rclosed, splitter, lines, widx, wstate, wflags, wended,
              wbuf, existed, wrote, opens, started, anonSeen, idsChecks, validated>>
preVars == <<fileLen, fed>>
vars == <<args, given, pc, status, exitBy, exitCode, errs, log, collector, loopIdx, req,
          promise, rpos, rclosed, splitter, lines, widx, wstate, wflags, wended, wbuf,
          existed, wrote, opens, fileLen, fed, started, anonSeen, idsChecks, validated>>

\* process.exit(code) reports the code as an unsigned byte
ExitModulus == 256
ExitStatus(code) == code % ExitModulus
\* the value of status while the process runs: no exit status
NotExited == ExitModulus

Exit(code, by) ==
  /\ pc' = "exited"
  /\ status' = ExitStatus(code)
  /\ exitBy' = by

\* errorFunc: print the message, remember that an error happened
ErrorFunc(kind) ==
  /\ errs' = errs \cup {kind}
  /\ exitCode' = 1

(* ------------------- Line Classifier (encounter_tools) ----------------- *)
IsZoneChange(line) == line = "Z1"
IsFightStart(line) == line \in {"F1", "F2", "F3"}
IsFightEnd(line) == line = "E"
ZoneNameOf(line) == Str("A")
\* F3 starts a fight for which no name is known
FightNameOf(line) == IF line = "F3" THEN Undef ELSE Str("A")
\* F2 starts a fight whose boss seal is named differently from the fight
SealNameOf(line) == IF line = "F2" THEN Str("B") ELSE Undef

(* ------------------- EncounterCollector (encounter_tools) -------------- *)
NewCollector == [fights |-> <<>>, zones |-> <<>>, openFight |-> 0, openZone |-> 0,
                 last |-> Undef]

SetEnd(recs, i, line) == [recs EXCEPT ![i].endLine = Str(line)]

\* collector.process(line, isRestart)
CollectorProcess(c, line, isRestart) ==
  IF isRestart /\ c.last = Str(line) THEN c
  ELSE
    LET c0 == [c EXCEPT !.last = Str(line)] IN
    IF IsZoneChange(line) THEN
      LET closed == IF c0.openZone # 0 THEN SetEnd(c0.zones, c0.openZone, line)
                    ELSE c0.zones
          zone == [zoneName |-> ZoneNameOf(line), startLine |-> Str(line),
                   endLine |-> Undef]
      IN [c0 EXCEPT !.zones = Append(closed, zone), !.openZone = Len(closed) + 1]
    ELSE IF IsFightStart(line) THEN
      LET closed == IF c0.openFight # 0 THEN SetEnd(c0.fights, c0.openFight, line)
                    ELSE c0.fights
          fight == [fightName |-> FightNameOf(line), sealName |-> SealNameOf(line),
                    startLine |-> Str(line), endLine |-> Undef]
      IN [c0 EXCEPT !.fights = Append(closed, fight), !.openFight = Len(closed) + 1]
    ELSE IF IsFightEnd(line) /\ c0.openFight # 0 THEN
      [c0 EXCEPT !.fights = SetEnd(c0.fights, c0.openFight, line), !.openFight = 0]
    ELSE c0

\* TLFuncs.generateFileName(record): a name derived from the record's name
\* and the start of its range
GenerateFileName(kind, rec) ==
  <<kind, IF kind = "zone" THEN rec.zoneName
          ELSE IF rec.sealName # Undef THEN rec.sealName ELSE rec.fightName,
    rec.startLine>>

(* ------------------------------ Splitter ------------------------------- *)
NoSplitter == [startLine |-> Undef, endLine |-> Undef, includeGlobals |-> FALSE,
               analysisFilter |-> FALSE, state |-> "none"]

\* new Splitter(startLine, endLine, notifier, includeGlobals, analysisFilter)
NewSplitter(startLine, endLine, includeGlobals, analysisFilter) ==
  [startLine |-> startLine, endLine |-> endLine, includeGlobals |-> includeGlobals,
   analysisFilter |-> analysisFilter, state |-> "before"]

\* chat is not interesting for analysis
IsInteresting(line) == line # "C"
IsGlobal(line) == IsZoneChange(line)

\* splitter.processWithCallback(line, false, emit): the splitter after the
\* line, and whether emit was called with the line
SplitterProcess(sp, line) ==
  LET st1 == IF sp.state = "before" /\ Str(line) = sp.startLine THEN "in" ELSE sp.state
      emit == /\ st1 = "in"
              /\ \/ ~sp.analysisFilter
                 \/ IsInteresting(line)
                 \/ sp.includeGlobals /\ IsGlobal(line)
      st2 == IF st1 = "in" /\ Str(line) = sp.endLine THEN "done" ELSE st1
  IN [sp |-> [sp EXCEPT !.state = st2], emit |-> emit]

\* splitter.isDone()
IsDone(sp) == sp.state = "done"

(* ----------------------------- Anonymizer ------------------------------ *)
\* anonymizer.process(line, notifier): the rewritten line, or undefined for
\* a line that cannot be anonymized safely (chat)
AnonymizerProcess(line) == IF line = "C" THEN Undef ELSE Str("anon:" \o line)

Init ==
  /\ \E absent \in {Null, Undef} :
       \E file \in OptionValues("file", absent),
          force \in OptionValues("force", absent),
          sf \in OptionValues("search_fights", absent),
          sz \in OptionValues("search_zones", absent),
          fr \in OptionValues("fight_regex", absent),
          zr \in OptionValues("zone_regex", absent),
          na \in OptionValues("no_anonymize", absent),
          af \in OptionValues("analysis_filter", absent) :
       /\ args = [file |-> file, force |-> force, search_fights |-> sf,
                  search_zones |-> sz, fight_regex |-> fr, zone_regex |-> zr,
                  no_anonymize |-> na, analysis_filter |-> af]
       /\ given = {o \in Options : args[o] \in SuppliedValues(o)}
  /\ pc = "start"
  /\ status = NotExited
  /\ exitBy = "none"
  /\ exitCode = 0
  /\ errs = {}
  /\ log = <<>>
  /\ collector = NewCollector
  /\ loopIdx = 0
  /\ req = <<>>
  /\ promise = "none"
  /\ rpos = 0
  /\ rclosed = FALSE
  /\ splitter = NoSplitter
  /\ lines = <<>>
  /\ widx = <<>>
  /\ wstate = "none"
  /\ wflags = "none"
  /\ wended = FALSE
  /\ wbuf = <<>>
  /\ existed = FALSE
  /\ wrote = <<>>
  /\ opens = 0
  /\ fileLen = 0
  /\ fed = <<>>
  /\ started = 0
  /\ anonSeen = {}
  /\ idsChecks = 0
  /\ validated = <<>>

(* ------------------------- argument checks ----------------------------- *)
\* if (args.file === null) { printHelpAndError; process.exit(-1) }
CheckFile ==
  /\ pc = "start"
  /\ IF args["file"] = Null
       THEN /\ Exit(0 - 1, "usage_file")
            /\ errs' = errs \cup {"usage"}
       ELSE /\ pc' = "checksel"
            /\ UNCHANGED <<status, exitBy, errs>>
  /\ UNCHANGED <<args, given, exitCode, log, collector, loopIdx, req, passVars, preVars>>

\* for (const opt of exclusiveArgs) if (args[opt] !== undefined) numExclusiveArgs++
NumExclusiveArgs(a) == Cardinality({o \in Selectors : a[o] # Undef})

CheckSelectors ==
  /\ pc = "checksel"
  /\ IF NumExclusiveArgs(args) # 1
       THEN /\ Exit(0 - 2, "usage_selectors")
            /\ errs' = errs \cup {"usage"}
       ELSE /\ pc' = "prepass"
            /\ UNCHANGED <<status, exitBy, errs>>
  /\ UNCHANGED <<args, given, exitCode, log, collector, loopIdx, req, passVars, preVars>>

(* ------------------------------ prepass -------------------------------- *)
\* the log opened where the script starts, ahead of the argument checks
PrepassOpen_BeforeChecks ==
  /\ pc \in {"start", "checksel", "prepass"}
  /\ opens = 0
  /\ args["file"] # Undef
  /\ opens' = 1
  /\ fileLen' \in 0 .. MaxLen
  /\ UNCHANGED <<args, given, procVars, errVars, log, collector, loopIdx, req, fed,
                 promise, rpos, rclosed, splitter, lines, widx, wstate, wflags, wended,
                 wbuf, existed, wrote, started, anonSeen, idsChecks, validated>>

\* readline.createInterface({ input: fs.createReadStream(filename) }): the
\* log is opened; it has some number of lines
PrepassOpen ==
  /\ pc = "prepass"
  /\ opens = 0
  /\ args["file"] # Undef
  /\ opens' = 1
  /\ fileLen' \in 0 .. MaxLen
  /\ UNCHANGED <<args, given, procVars, errVars, log, collector, loopIdx, req, fed,
                 promise, rpos, rclosed, splitter, lines, widx, wstate, wflags, wended,
                 wbuf, existed, wrote, started, anonSeen, idsChecks, validated>>

\* the prepass run as a restart
PrepassIsRestart_Restarting == TRUE

\* the isRestart argument of the prepass
PrepassIsRestart == FALSE

\* for await (const line of lineReader) collector.process(line, false)
PrepassLine ==
  /\ pc = "prepass"
  /\ opens = 1
  /\ Len(log) < fileLen
  /\ \E line \in Lines :
       /\ log' = Append(log, line)
       /\ collector' = CollectorProcess(collector, line, PrepassIsRestart)
       /\ fed' = Append(fed, <<line, PrepassIsRestart>>)
  /\ UNCHANGED <<args, given, procVars, errVars, loopIdx, req, passVars, fileLen>>

\* the input ends: makeCollectorFromPrepass returns the collector
PrepassEnd ==
  /\ pc = "prepass"
  /\ opens = 1
  /\ Len(log) = fileLen
  /\ pc' = "select"
  /\ UNCHANGED <<args, given, status, exitBy, errVars, log, collector, loopIdx, req,
                 passVars, preVars>>

\* fs.createReadStream(undefined) throws; the rejection of the async function
\* is unhandled, which ends the process with 1, or with 0 on runtimes that
\* only warn
PrepassThrows ==
  /\ pc = "prepass"
  /\ args["file"] = Undef
  /\ \E code \in {0, 1} : Exit(code, "crash")
  /\ UNCHANGED <<args, given, errVars, log, collector, loopIdx, req, passVars, preVars>>

(* ------------------------------ writeFile ------------------------------ *)
\* writeFile without its endLine guard
MissingLine_NoEndCheck(startLine, endLine) ==
  IF startLine = Undef THEN "startLine" ELSE "none"

\* writeFile without its guards
MissingLine_Unguarded(startLine, endLine) == "none"

\* the guards at the top of writeFile: the argument reported missing, if any
MissingLine(startLine, endLine) ==
  IF startLine = Undef THEN "startLine"
  ELSE IF endLine = Undef THEN "endLine"
  ELSE "none"

\* const flags = args.force === null ? 'wx' : 'w'
WriterFlags(a) == IF a["force"] = Null THEN "wx" ELSE "w"

\* x ?? false
OrFalse(v) == IF v \in {Undef, Null} THEN FALSE ELSE v[2]

AnalysisFilter(a) == OrFalse(a["analysis_filter"])
NoAnonymize(a) == OrFalse(a["no_anonymize"])
IncludeGlobals == TRUE

\* writeFile(outputFile, startLine, endLine) up to the return of the Promise;
\* destExists is whether outputFile is on disk at that moment
WriteFile(outputFile, startLine, endLine, destExists) ==
  /\ req' = <<[outputFile |-> outputFile, startLine |-> startLine, endLine |-> endLine]>>
  /\ IF MissingLine(startLine, endLine) # "none"
       THEN /\ ErrorFunc("missing " \o MissingLine(startLine, endLine))
            /\ Exit(0 - 4, "missing_line")
            /\ UNCHANGED passVars
       ELSE /\ pc' = "await"
            /\ promise' = "pending"
            /\ rpos' = 0
            /\ rclosed' = FALSE
            /\ splitter' = NewSplitter(startLine, endLine, IncludeGlobals,
                                       AnalysisFilter(args))
            /\ lines' = <<>>
            /\ widx' = <<>>
            /\ wstate' = "opening"
            /\ wflags' = WriterFlags(args)
            /\ wended' = FALSE
            /\ wbuf' = <<>>
            /\ existed' = destExists
            /\ opens' = opens + 1
            /\ started' = started + 1
            /\ anonSeen' = {}
            /\ idsChecks' = 0
            /\ validated' = <<>>
            /\ UNCHANGED <<status, exitBy, errVars, wrote>>

(* ------------------------------ selection ------------------------------ *)
\* JavaScript truthiness of an argument value
Truthy(v) ==
  CASE v[1] = "num" -> v[2] # 0
    [] v[1] = "str" -> v[2] # ""
    [] v[1] = "bool" -> v[2]
    [] OTHER -> FALSE

\* array[k] for a zero-based k: the element, or nothing (undefined)
At(array, k) == IF k \in 0 .. (Len(array) - 1) THEN <<array[k + 1]>> ELSE <<>>

\* the index used without the adjustment
IndexLookup_ZeroBased(array, arg) == At(array, arg[2])

\* the index adjusted twice
IndexLookup_AdjustedTwice(array, arg) == At(array, arg[2] - 2)

\* the record selected by a one-based index argument
IndexLookup(array, arg) == At(array, arg[2] - 1)

Fold(s) ==
  CASE s = "A" -> "a"
    [] s = "B" -> "b"
    [] OTHER -> s

\* name.match(new RegExp(pattern, 'i')); RegExp(undefined) is the empty
\* pattern, which matches every string
Match(name, pattern) == pattern = Undef \/ Fold(name[2]) = Fold(pattern[2])

\* a fight matched when either of its names matches
FightMatches_EitherName(fight, pattern) ==
  \/ fight.sealName # Undef /\ Match(fight.sealName, pattern)
  \/ fight.fightName # Undef /\ Match(fight.fightName, pattern)

\* (e.sealName ?? e.fightName)?.match(fightRegex)
FightMatches(fight, pattern) ==
  IF fight.sealName # Undef THEN Match(fight.sealName, pattern)
  ELSE fight.fightName # Undef /\ Match(fight.fightName, pattern)

ZoneMatches(zone, pattern) == zone.zoneName # Undef /\ Match(zone.zoneName, pattern)

Listing(a) == a["search_fights"] = Num(0 - 1) \/ a["search_zones"] = Num(0 - 1)

\* the loop going on without awaiting the pass it started
Resumed_NoAwait == pc = "await"

\* the function continues: at its start, or after an awaited writeFile resolved
Resumed == pc = "await" /\ promise = "resolved"

\* printCollectedFights / printCollectedZones; process.exit(0)
List ==
  /\ pc = "select"
  /\ Listing(args)
  /\ Exit(0, IF args["search_fights"] = Num(0 - 1) THEN "list_fights" ELSE "list_zones")
  /\ UNCHANGED <<args, given, errVars, log, collector, loopIdx, req, passVars, preVars>>

\* if (args['search_fights']) ... ; if (args['search_zones']) ...
SelectIndex ==
  /\ ~Listing(args)
  /\ Truthy(args["search_fights"]) \/ Truthy(args["search_zones"])
  /\ LET isFight == Truthy(args["search_fights"])
         kind == IF isFight THEN "fight" ELSE "zone"
         found == IF isFight THEN IndexLookup(collector.fights, args["search_fights"])
                  ELSE IndexLookup(collector.zones, args["search_zones"])
     IN \/ /\ pc = "select"
           /\ IF found = <<>>
                THEN /\ ErrorFunc("missing " \o kind)
                     /\ Exit(IF isFight THEN 0 - 3 ELSE 0 - 4, "missing_" \o kind)
                     /\ UNCHANGED <<req, passVars>>
                ELSE \E destExists \in BOOLEAN :
                       WriteFile(GenerateFileName(kind, found[1]), found[1].startLine,
                                 found[1].endLine, destExists)
        \/ /\ Resumed
           /\ Exit(exitCode, "done")
           /\ UNCHANGED <<errVars, req, passVars>>
  /\ UNCHANGED <<args, given, log, collector, loopIdx, preVars>>

\* the records the regex loop still has to visit that match
RegexMatches(a, c, from) ==
  IF a["fight_regex"] # Null
    THEN {i \in (from + 1) .. Len(c.fights) : FightMatches(c.fights[i], a["fight_regex"])}
    ELSE {i \in (from + 1) .. Len(c.zones) : ZoneMatches(c.zones[i], a["zone_regex"])}

Min(S) == CHOOSE x \in S : \A y \in S : x <= y

\* if (args['fight_regex'] !== null) ... else if (args['zone_regex'] !== null) ...
\* else 'Internal error'
SelectRegex ==
  /\ pc = "select" \/ Resumed
  /\ ~Listing(args)
  /\ ~Truthy(args["search_fights"])
  /\ ~Truthy(args["search_zones"])
  /\ IF args["fight_regex"] = Null /\ args["zone_regex"] = Null
       THEN /\ Exit(0 - 1, "internal")
            /\ errs' = errs \cup {"internal"}
            /\ UNCHANGED <<exitCode, loopIdx, req, passVars>>
       ELSE LET kind == IF args["fight_regex"] # Null THEN "fight" ELSE "zone"
                recs == IF kind = "fight" THEN collector.fights ELSE collector.zones
                todo == RegexMatches(args, collector, loopIdx)
            IN IF todo = {}
                 THEN /\ Exit(exitCode, "done")
                      /\ loopIdx' = Len(recs)
                      /\ UNCHANGED <<errVars, req, passVars>>
                 ELSE /\ loopIdx' = Min(todo)
                      /\ \E destExists \in BOOLEAN :
                           WriteFile(GenerateFileName(kind, recs[Min(todo)]),
                                     recs[Min(todo)].startLine, recs[Min(todo)].endLine,
                                     destExists)
  /\ UNCHANGED <<args, given, log, collector, preVars>>

(* ------------------------------ write pass ----------------------------- *)
NL == Str("\n")

\* the callback run for every line, whatever the splitter decided
CallbackLines_EveryLine(line, emit) == <<line>>

\* the lines the callback given to processWithCallback is called with
CallbackLines(line, emit) == IF emit THEN <<line>> ELSE <<>>

\* the original line written when the anonymizer returns undefined
WriteLine_KeepsDropped(line, noAnonymize) ==
  IF ~noAnonymize /\ AnonymizerProcess(line) # Undef
    THEN <<AnonymizerProcess(line)>>
    ELSE <<Str(line)>>

\* the line the callback writes for an emitted line: nothing when the
\* anonymizer drops it
WriteLine(line, noAnonymize) ==
  IF ~noAnonymize
    THEN IF AnonymizerProcess(line) = Undef THEN <<>> ELSE <<AnonymizerProcess(line)>>
    ELSE <<Str(line)>>

\* the newline written before the line
WriteChunks_NewlineFirst(writeLine) == <<NL, writeLine>>

\* writer.write(writeLine); writer.write('\n')
WriteChunks(writeLine) == <<writeLine, NL>>

\* the validation run whatever the flag
Validation_Unconditional(noAnonymize, written) == [ids |-> 1, lines |-> written]

\* the validation calls of the 'close' handler: the number of validateIds
\* calls and the lines given to validateLine
Validation(noAnonymize, written) ==
  IF ~noAnonymize THEN [ids |-> 1, lines |-> written] ELSE [ids |-> 0, lines |-> <<>>]

\* lineReader.on('close'): writer.end(), "Wrote:", validation, writer.close();
\* written is the lines array at that moment, report is whether validateIds /
\* validateLine told the notifier anything
CloseHandler(report, written) ==
  /\ rclosed' = TRUE
  /\ wended' = TRUE
  /\ wrote' = Append(wrote, req[1].outputFile)
  /\ idsChecks' = idsChecks + Validation(NoAnonymize(args), written).ids
  /\ validated' = validated \o Validation(NoAnonymize(args), written).lines
  /\ IF report THEN ErrorFunc("diagnostic") ELSE UNCHANGED errVars

PassRunning == pc = "await" /\ promise = "pending"

\* the lineReader delivers its next event.  lineReader.on('line'): one line
\* of the log; close() does not hold back the lines readline has already
\* split off, so lines can follow it.  At the end of the input readline
\* emits 'close' if close() was not called before.
ReaderEvent ==
  /\ PassRunning
  /\ IF rpos < Len(log)
       THEN LET line == log[rpos + 1]
                r == SplitterProcess(splitter, line)
                cb == CallbackLines(line, r.emit)
                out == IF cb = <<>> THEN <<>> ELSE WriteLine(cb[1], NoAnonymize(args))
                closes == IsDone(r.sp) /\ ~rclosed
                anonymizes == ~NoAnonymize(args) /\ (cb # <<>> \/ closes)
                written == IF out = <<>> THEN lines ELSE Append(lines, out[1])
            IN /\ rpos' = rpos + 1
               /\ splitter' = r.sp
               /\ lines' = written
               /\ IF out = <<>>
                    THEN UNCHANGED <<widx, wbuf>>
                    ELSE /\ widx' = Append(widx, rpos + 1)
                         /\ wbuf' = wbuf \o WriteChunks(out[1])
               /\ anonSeen' = IF ~NoAnonymize(args) /\ cb # <<>>
                                THEN anonSeen \cup {rpos + 1} ELSE anonSeen
               /\ \E report \in (IF anonymizes THEN BOOLEAN ELSE {FALSE}) :
                    IF closes
                      THEN CloseHandler(report, written)
                      ELSE /\ UNCHANGED <<rclosed, wended, wrote, idsChecks, validated>>
                           /\ IF report THEN ErrorFunc("diagnostic")
                              ELSE UNCHANGED errVars
       ELSE /\ ~rclosed
            /\ \E report \in (IF NoAnonymize(args) THEN {FALSE} ELSE BOOLEAN) :
                 CloseHandler(report, lines)
            /\ UNCHANGED <<rpos, splitter, lines, widx, wbuf, anonSeen>>
  /\ UNCHANGED <<args, given, procVars, log, collector, loopIdx, req, promise, wstate,
                 wflags, existed, opens, started, preVars>>

\* fs.open of the destination succeeds: 'wx' refuses an existing file
WriterOpens ==
  /\ PassRunning
  /\ wstate = "opening"
  /\ ~(wflags = "wx" /\ existed)
  /\ wstate' = "open"
  /\ UNCHANGED <<args, given, procVars, errVars, log, collector, loopIdx, req, promise,
                 rpos, rclosed, splitter, lines, widx, wflags, wended, wbuf, existed,
                 wrote, opens, started, anonSeen, idsChecks, validated, preVars>>

\* writer.on('error'): errorFunc(err); reject(...); process.exit(-1).  The
\* open fails (the file exists under 'wx', or the disk refuses), or a later
\* write fails.
WriterError ==
  /\ PassRunning
  /\ wstate \in {"opening", "open"}
  /\ wstate' = IF wstate = "opening" THEN "failed" ELSE "broken"
  /\ ErrorFunc("write")
  /\ promise' = "rejected"
  /\ Exit(0 - 1, "write_error")
  /\ UNCHANGED <<args, given, log, collector, loopIdx, req, rpos, rclosed, splitter,
                 lines, widx, wflags, wended, wbuf, existed, wrote, opens, started,
                 anonSeen, idsChecks, validated, preVars>>

\* nothing resolves the Promise: once the reader is closed and the writer
\* has finished, the event loop is empty and the process ends with status 0
Drain ==
  /\ PassRunning
  /\ rclosed
  /\ wended
  /\ wstate = "open"
  /\ Exit(0, "drain")
  /\ UNCHANGED <<args, given, errVars, log, collector, loopIdx, req, passVars, preVars>>

\* the content of the destination of the current pass
OldContent == <<Str("old")>>
NoFile == <<Str("no file")>>
FileContent ==
  IF wstate \in {"open", "broken"} THEN wbuf
  ELSE IF existed THEN OldContent
  ELSE NoFile

Next ==
  \/ CheckFile
  \/ CheckSelectors
  \/ PrepassOpen
  \/ PrepassLine
  \/ PrepassEnd
  \/ PrepassThrows
  \/ List
  \/ SelectIndex
  \/ SelectRegex
  \/ ReaderEvent
  \/ WriterOpens
  \/ WriterError
  \/ Drain

Spec == Init /\ [][Next]_vars

(* ============================== properties ============================= *)
SuppliedSelectors == given \cap Selectors

\* the selection code after the prepass has run
SelectionRan ==
  \/ pc = "await"
  \/ pc = "exited" /\ exitBy \notin {"usage_file", "usage_selectors", "crash"}

\* the run ended without a fatal error, after selection
EndedNormally == pc = "exited" /\ exitBy \in {"done", "drain"}

\* the records the regex given on the command line matches, in collector order
MatchedRecords ==
  IF "fight_regex" \in given
    THEN SelectSeq(collector.fights, LAMBDA f : FightMatches(f, args["fight_regex"]))
    ELSE SelectSeq(collector.zones, LAMBDA z : ZoneMatches(z, args["zone_regex"]))

MatchedKind == IF "fight_regex" \in given THEN "fight" ELSE "zone"

RegexRun ==
  /\ Cardinality(SuppliedSelectors) = 1
  /\ SuppliedSelectors \subseteq {"fight_regex", "zone_regex"}

\* C1: when the regex matches two or more records that all have a start and
\* an end line, a run that ends without a fatal error has performed one write
\* pass per matching record, in collector order.
C1_EveryMatchWritten ==
  (/\ EndedNormally
   /\ RegexRun
   /\ Len(MatchedRecords) >= 2
   /\ \A k \in 1 .. Len(MatchedRecords) :
        MatchedRecords[k].startLine # Undef /\ MatchedRecords[k].endLine # Undef)
  => wrote = [k \in 1 .. Len(MatchedRecords) |->
                GenerateFileName(MatchedKind, MatchedRecords[k])]

\* C2: a run whose write pass produced its output ends with a nonzero status
\* exactly when a diagnostic went through errorFunc.
C2_StatusReflectsDiagnostics ==
  (EndedNormally /\ Len(wrote) > 0) => ((status # 0) <=> (exitCode = 1))

\* C3: once the selector check has run, the run was rejected as a usage error
\* exactly when the number of selectors given is not one.
C3_RejectedIffNotOneSelector ==
  (pc \notin {"start", "checksel"} /\ exitBy # "usage_file")
  => ((exitBy = "usage_selectors") <=> (Cardinality(SuppliedSelectors) # 1))

\* C4 (as claimed): a run that selected a record without endLine has, when it
\* ends, produced the output file of that record.
C4_OpenRecordSplitToEof ==
  (pc = "exited" /\ req # <<>> /\ req[1].startLine # Undef /\ req[1].endLine = Undef)
  => (wrote # <<>> /\ wrote[Len(wrote)] = req[1].outputFile)

\* C4 (amended): writeFile called for a record without endLine reports the
\* missing endLine through errorFunc and ends the process with status -4
\* before a reader, Splitter or writer exists; no output file is produced.
C4_OpenRecordFailsFast ==
  (req # <<>> /\ req[1].startLine # Undef /\ req[1].endLine = Undef)
  => /\ pc = "exited"
     /\ exitBy = "missing_line"
     /\ status = ExitStatus(0 - 4)
     /\ status # 0
     /\ "missing endLine" \in errs
     /\ exitCode = 1
     /\ promise = "none"
     /\ splitter = NoSplitter
     /\ wstate = "none"
     /\ rpos = 0
     /\ wrote = <<>>

C4_Witness ==
  /\ req # <<>>
  /\ req[1].startLine # Undef
  /\ req[1].endLine = Undef
  /\ exitBy = "missing_line"
  /\ Len(log) >= 2

\* a write pass exists, for a record with both markers
PassExists ==
  /\ promise # "none"
  /\ req # <<>>
  /\ req[1].startLine # Undef
  /\ req[1].endLine # Undef

\* position of the first line equal to startLine, and of the first line equal
\* to endLine at or after it
RangeStart == Min({i \in 1 .. Len(log) : Str(log[i]) = req[1].startLine})
RangeEnd == Min({i \in RangeStart .. Len(log) : Str(log[i]) = req[1].endLine})

\* the line written for position i of the log
IsWrittenFormOf(written, i) ==
  IF NoAnonymize(args) THEN written = Str(log[i])
  ELSE written = AnonymizerProcess(log[i]) /\ written # Undef

\* C5: every line written by a pass comes from a position of the log between
\* the start marker and the following end marker, both inclusive, in
\* increasing position; this stays so for lines delivered after close().
C5_OutputWithinRange ==
  PassExists =>
    /\ Len(widx) = Len(lines)
    /\ \E i \in 1 .. Len(log) : Str(log[i]) = req[1].startLine
    /\ \E i \in RangeStart .. Len(log) : Str(log[i]) = req[1].endLine
    /\ LET first == RangeStart
           last == RangeEnd
       IN \A k \in 1 .. Len(lines) :
            /\ first <= widx[k]
            /\ widx[k] <= last
            /\ IsWrittenFormOf(lines[k], widx[k])
    /\ \A j, k \in 1 .. Len(widx) : j < k => widx[j] < widx[k]
    /\ \A k \in 1 .. Len(wbuf) : wbuf[k] = NL \/ \E j \in 1 .. Len(lines) : wbuf[k] = lines[j]

\* a line before the range was skipped, the range was written, and a line was
\* delivered after the end marker had closed the reader
C5_Witness ==
  /\ PassExists
  /\ rclosed
  /\ IsDone(splitter)
  /\ lines # <<>>
  /\ widx[1] > 1
  /\ rpos > widx[Len(widx)]

\* C6: the chunks handed to the writer are the written lines in the order in
\* which their input lines were read, each once and each followed by exactly
\* one newline.
C6_InputOrderAndNewlines ==
  /\ Len(wbuf) = 2 * Len(lines)
  /\ Len(widx) = Len(lines)
  /\ \A k \in 1 .. Len(lines) :
       /\ wbuf[2 * k - 1] = lines[k]
       /\ wbuf[2 * k] = NL
       /\ lines[k] # NL
       /\ widx[k] \in 1 .. rpos
       /\ IsWrittenFormOf(lines[k], widx[k])
  /\ \A j, k \in 1 .. Len(widx) : j < k => widx[j] < widx[k]
  /\ wstate \in {"open", "broken"} => FileContent = wbuf

C6_Witness ==
  /\ wstate = "open"
  /\ Len(lines) >= 2
  /\ widx[2] > widx[1] + 1

\* C7: when the destination existed and --force was not given, the
\* destination is never opened for writing: it keeps its content.
C7_ExistingFileKept ==
  (promise # "none" /\ existed /\ "force" \notin given) => FileContent = OldContent

IndexRun ==
  /\ Cardinality(SuppliedSelectors) = 1
  /\ SuppliedSelectors \subseteq {"search_fights", "search_zones"}

IndexGiven ==
  IF "search_fights" \in given THEN args["search_fights"][2] ELSE args["search_zones"][2]

IndexedRecords ==
  IF "search_fights" \in given THEN collector.fights ELSE collector.zones

MissingRecordReported ==
  /\ pc = "exited"
  /\ exitBy = (IF "search_fights" \in given THEN "missing_fight" ELSE "missing_zone")
  /\ status # 0
  /\ (IF "search_fights" \in given THEN "missing fight" ELSE "missing zone") \in errs
  /\ req = <<>>
  /\ promise = "none"
  /\ wstate = "none"
  /\ wrote = <<>>

C9_NoMatchIsAnError ==
  (pc = "exited" /\ SelectionRan /\ RegexRun /\ MatchedRecords = <<>>)
  => (status # 0 /\ errs # {} /\ wrote = <<>>)

\* the statuses of the usage errors and of the missing fight/zone/range errors
UsageStatuses == {ExitStatus(0 - 1), ExitStatus(0 - 2)}
MissingStatuses == {ExitStatus(0 - 3), ExitStatus(0 - 4)}

\* C10: a fatal error ends the process with a nonzero status; a missing
\* fight/zone/range error never uses a status of a usage error, and a write
\* failure never uses a status of a usage or missing-range error.
C10_FatalStatusesDistinct ==
  pc = "exited" =>
    /\ exitBy \in {"usage_file", "usage_selectors", "missing_fight", "missing_zone",
                   "missing_line", "write_error"} => status # 0
    /\ exitBy \in {"missing_fight", "missing_zone", "missing_line"}
         => status \notin UsageStatuses
    /\ exitBy = "write_error" => status \notin UsageStatuses \cup MissingStatuses

\* C11: a run rejected as a usage error ends with a nonzero status before the
\* input log is opened, before any line is read or collected, and before any
\* writer exists: no usage error comes after file I/O has started.
C11_UsageErrorBeforeIO ==
  exitBy \in {"usage_file", "usage_selectors"}
  => /\ status # 0
     /\ opens = 0
     /\ log = <<>>
     /\ fed = <<>>
     /\ collector = NewCollector
     /\ started = 0
     /\ req = <<>>
     /\ wstate = "none"
     /\ wbuf = <<>>
     /\ wrote = <<>>

\* a run with a file and two selectors was rejected
C11_Witness ==
  /\ exitBy = "usage_selectors"
  /\ "file" \in given
  /\ Cardinality(SuppliedSelectors) = 2

IndexedKind == IF "search_fights" \in given THEN "fight" ELSE "zone"

\* C12: for an index i in 1..N the selection calls writeFile with the name,
\* startLine and endLine of the i-th collected record, and the Splitter of the
\* pass is built from these two lines.
C12_IndexIsOneBased ==
  (SelectionRan /\ IndexRun /\ IndexGiven \in 1 .. Len(IndexedRecords))
  => LET rec == IndexedRecords[IndexGiven]
     IN /\ req = <<[outputFile |-> GenerateFileName(IndexedKind, rec),
                    startLine |-> rec.startLine, endLine |-> rec.endLine]>>
        /\ loopIdx = 0
        /\ rec.endLine # Undef
             => /\ started = 1
                /\ splitter.startLine = rec.startLine
                /\ splitter.endLine = rec.endLine

\* the second of two different records is being split
C12_Witness ==
  /\ IndexRun
  /\ IndexGiven = 2
  /\ Len(IndexedRecords) >= 2
  /\ IndexedRecords[1].startLine # IndexedRecords[2].startLine
  /\ promise = "pending"
  /\ splitter.startLine = IndexedRecords[2].startLine
  /\ rpos > 0

FightRegexRun == SelectionRan /\ SuppliedSelectors = {"fight_regex"}

\* the name the claim matches a fight by: the seal name when there is one,
\* the fight name otherwise
NameMatchedOn(fight) == IF fight.sealName # Undef THEN fight.sealName ELSE fight.fightName

\* the positions of the fights the regex of the command line selects
SelectedFights ==
  {i \in 1 .. Len(collector.fights) :
     /\ NameMatchedOn(collector.fights[i]) # Undef
     /\ Fold(NameMatchedOn(collector.fights[i])[2]) = Fold(args["fight_regex"][2])}

\* C13: a run under fight_regex that ends without a fatal error has visited
\* every fight and started a write pass for exactly the fights whose seal
\* name, or fight name when they have no seal name, matches the regex.
C13_SelectedIffMatches ==
  (FightRegexRun /\ EndedNormally)
  => /\ \A i \in SelectedFights : i <= loopIdx
     /\ started = Cardinality(SelectedFights)

\* C13 (first selection): under fight_regex the loop passes to writeFile the
\* first fight whose seal name, or fight name when it has no seal name,
\* matches the regex whatever the case; fights before it, among them fights
\* with a matching fight name but another seal name and fights without a
\* name, are passed over, and when no fight matches no pass is requested.
C13_SealNameBeforeFightName ==
  FightRegexRun
  => IF SelectedFights = {}
       THEN req = <<>> /\ started = 0 /\ exitBy = "done"
       ELSE /\ loopIdx = Min(SelectedFights)
            /\ req = <<[outputFile |->
                          GenerateFileName("fight", collector.fights[Min(SelectedFights)]),
                        startLine |-> collector.fights[Min(SelectedFights)].startLine,
                        endLine |-> collector.fights[Min(SelectedFights)].endLine]>>

\* a fight whose fight name matches and whose seal name does not was passed
\* over for the fight after it
C13_Witness ==
  /\ FightRegexRun
  /\ Len(collector.fights) >= 2
  /\ collector.fights[1].sealName # Undef
  /\ Fold(collector.fights[1].fightName[2]) = Fold(args["fight_regex"][2])
  /\ loopIdx = 2
  /\ promise = "pending"

\* a fight was selected by its seal name
C13_SelectedBySeal ==
  /\ FightRegexRun
  /\ loopIdx >= 1
  /\ collector.fights[loopIdx].sealName # Undef
  /\ promise = "pending"

\* a fight without a name was passed over for the fight after it
C13_NamelessPassedOver ==
  /\ FightRegexRun
  /\ loopIdx = 2
  /\ collector.fights[1].sealName = Undef
  /\ collector.fights[1].fightName = Undef

\* C14: once writeFile has been called with startLine or endLine undefined
\* the process has ended with a nonzero status and the missing argument was
\* reported; the log was opened by the prepass only, no pass was started, no
\* Splitter and no writer were made and no output was produced.
C14_MissingMarkerFailsFast ==
  (req # <<>> /\ (req[1].startLine = Undef \/ req[1].endLine = Undef))
  => /\ pc = "exited"
     /\ exitBy = "missing_line"
     /\ status # 0
     /\ errs = {IF req[1].startLine = Undef THEN "missing startLine" ELSE "missing endLine"}
     /\ opens = 1
     /\ started = 0
     /\ splitter = NoSplitter
     /\ wstate = "none"
     /\ wbuf = <<>>
     /\ wrote = <<>>

\* a regex selected an unterminated record and writeFile refused it
C14_Witness ==
  /\ RegexRun
  /\ req # <<>>
  /\ req[1].endLine = Undef
  /\ pc = "exited"
  /\ "missing endLine" \in errs

\* C15: a write pass starts only while no other pass is pending, and it
\* starts with a Splitter in its initial state, an Anonymizer that has seen
\* no line, no collected line, an empty output and no validation done: one
\* pass at a time, nothing carried over from an earlier pass.
C15_PassesDoNotOverlap ==
  [][started' # started
     => /\ promise # "pending"
        /\ started' = started + 1
        /\ promise' = "pending"
        /\ splitter' = NewSplitter(req'[1].startLine, req'[1].endLine, IncludeGlobals,
                                   AnalysisFilter(args))
        /\ anonSeen' = {}
        /\ rpos' = 0
        /\ lines' = <<>>
        /\ widx' = <<>>
        /\ wbuf' = <<>>
        /\ wstate' = "opening"
        /\ idsChecks' = 0
        /\ validated' = <<>>]_vars

\* a pass is reading the log while a second matching record waits for its own
C15_Witness ==
  /\ RegexRun
  /\ Len(MatchedRecords) >= 2
  /\ started = 1
  /\ promise = "pending"
  /\ rpos > 0
  /\ ~rclosed

\* the reader is about to deliver a line the Splitter emits and the
\* Anonymizer answers with undefined
DroppedNext ==
  /\ PassRunning
  /\ rpos < Len(log)
  /\ ~NoAnonymize(args)
  /\ SplitterProcess(splitter, log[rpos + 1]).emit
  /\ AnonymizerProcess(log[rpos + 1]) = Undef

\* C16: the step that handles a line the Anonymizer drops writes nothing,
\* adds nothing to the lines kept for validateLine, ends nothing and fails
\* nothing; the only thing that can be reported is what the Anonymizer itself
\* tells its notifier; the reader moves on to the next line, and it closes
\* only if the Splitter is done.
C16_DroppedLineChangesNothing ==
  [][(DroppedNext /\ rpos' # rpos)
     => /\ rpos' = rpos + 1
        /\ lines' = lines
        /\ widx' = widx
        /\ wbuf' = wbuf
        /\ wstate' = wstate
        /\ pc' = pc
        /\ promise' = promise
        /\ status' = status
        /\ errs' \subseteq errs \cup {"diagnostic"}
        /\ ~IsDone(splitter') => UNCHANGED <<rclosed, wended, wrote, idsChecks, validated>>]_vars

\* a line was dropped by the Anonymizer and a later line was written
C16_Witness ==
  /\ PassExists
  /\ ~NoAnonymize(args)
  /\ \E p \in anonSeen :
       /\ AnonymizerProcess(log[p]) = Undef
       /\ \A k \in 1 .. Len(widx) : widx[k] # p
       /\ \E k \in 1 .. Len(widx) : widx[k] > p

\* C17: in a pass that anonymizes, no validation call is made before the
\* reader has closed, and once it has closed validateIds was called once and
\* validateLine once per written line, in written order, every line of the
\* pass being written by then; in a pass that does not anonymize neither is
\* called and every written line is the input line itself.
C17_ValidationOnClose ==
  PassExists
  => /\ ~rclosed => (idsChecks = 0 /\ validated = <<>>)
     /\ (rclosed /\ ~NoAnonymize(args)) => (idsChecks = 1 /\ validated = lines)
     /\ NoAnonymize(args)
          => /\ idsChecks = 0
             /\ validated = <<>>
             /\ anonSeen = {}
             /\ Len(widx) = Len(lines)
             /\ \A k \in 1 .. Len(lines) : lines[k] = Str(log[widx[k]])

\* an anonymizing pass has closed after writing two lines, both validated
C17_Witness ==
  /\ PassExists
  /\ ~NoAnonymize(args)
  /\ rclosed
  /\ Len(lines) >= 2
  /\ validated = lines
  /\ idsChecks = 1

\* a pass that does not anonymize has closed after writing a line
C17_WitnessDisabled ==
  /\ PassExists
  /\ NoAnonymize(args)
  /\ rclosed
  /\ Len(lines) >= 1

\* C18: in a pass of a run without --no-anonymize every written line went
\* through the Anonymizer and is what it returned; in a pass of a run with
\* --no-anonymize no line went through it and every written line is the
\* input line.
C18_AnonymizedByDefault ==
  PassExists
  => /\ "no_anonymize" \notin given
          => \A k \in 1 .. Len(lines) :
               widx[k] \in anonSeen /\ lines[k] = AnonymizerProcess(log[widx[k]])
     /\ "no_anonymize" \in given
          => /\ anonSeen = {}
             /\ \A k \in 1 .. Len(lines) : lines[k] = Str(log[widx[k]])

\* C19: the Splitter of every pass has includeGlobals true, and it has
\* analysisFilter true exactly when --analysis-filter was given.
C19_FilterIsOptIn ==
  PassExists
  => /\ splitter.includeGlobals = TRUE
     /\ splitter.analysisFilter <=> ("analysis_filter" \in given)

\* C19 (the part that holds): includeGlobals is true in every pass
C19_GlobalsAlwaysIncluded == PassExists => splitter.includeGlobals = TRUE

\* one collector given the lines of l in order, never as a restart
RECURSIVE CollectedFrom(_)
CollectedFrom(l) ==
  IF l = <<>> THEN NewCollector
  ELSE CollectorProcess(CollectedFrom(SubSeq(l, 1, Len(l) - 1)), l[Len(l)], FALSE)

\* selection, listing or a write pass is about to happen or has happened
PrepassOver ==
  \/ pc \in {"select", "await"}
  \/ pc = "exited" /\ exitBy \notin {"usage_file", "usage_selectors", "crash"}

\* C20: the collector has been given each line read so far once, in file
\* order, with isRestart false, and while the prepass runs and when it ends
\* it is what a single collector becomes from them; nothing is requested,
\* listed or written while the prepass runs, and once it is over every line
\* of the log has been read.
C20_PrepassFeedsWholeLog ==
  /\ fed = [i \in 1 .. Len(log) |-> <<log[i], FALSE>>]
  /\ pc \in {"prepass", "select"} => collector = CollectedFrom(log)
  /\ pc = "prepass" => (req = <<>> /\ started = 0 /\ wrote = <<>> /\ opens <= 1)
  /\ PrepassOver => (opens >= 1 /\ Len(log) = fileLen)
  /\ (req # <<>> \/ started > 0 \/ wrote # <<>>) => PrepassOver

\* a record of a log of three lines, one of them repeated, is being written
C20_Witness ==
  /\ PrepassOver
  /\ fileLen = 3
  /\ Len(fed) = 3
  /\ fed[1] = fed[2]
  /\ started = 1

\* without --no-anonymize a line was written as it was read
C18_DefaultWritesVerbatim ==
  /\ PassExists
  /\ "no_anonymize" \notin given
  /\ Len(lines) >= 1
  /\ lines[1] = Str(log[widx[1]])
  /\ anonSeen = {}

\* without --analysis-filter a chat line of the range was filtered out
C19_DefaultFilters ==
  /\ PassExists
  /\ "analysis_filter" \notin given
  /\ splitter.analysisFilter
  /\ \E p \in 1 .. rpos : log[p] = "C" /\ \E k \in 1 .. Len(widx) : widx[k] > p
====
